---------------------------- MODULE Spec2Model ----------------------------
(***************************************************************************)
(* Model of the longest-prefix-match table of lpm: BitArray<N>             *)
(* (src/bitarray.h), BinaryTrie<N,T> (src/bintrie.h) and the way main.cpp  *)
(* builds keys and uses the trie (T = int).                                *)
(***************************************************************************)
EXTENDS Integers, Sequences, FiniteSets, TLC

(***************************************************************************)
(* Program constants and bounds of the model.                              *)
(***************************************************************************)
N == 4                  \* sizeof(in_addr): bytes of a key (Subnet4Dict)
WORD_BITS == 8          \* CHAR_BIT * sizeof(storage_type)
MaxNodes == 3           \* nodes the heap of the model can hold
NumVals == 1            \* distinct payload values (AS numbers) 1..NumVals

NULL == 0
NodeIds == 1..MaxNodes
Vals == 1..NumVals
Indet == 0              \* an int payload no statement has written yet
Keep == 0               \* operator[] used without an assignment
Uninit == <<>>          \* the storage of a BitArray built by BitArray()

(***************************************************************************)
(* Inputs.  The loader writes a whole address into the storage and then    *)
(* calls setSize, so a key is an address together with a length; the bits  *)
(* at positions >= length stay whatever the address had there.  The        *)
(* addresses differ at bit 7 (last bit of byte 0) and bit 8 (first bit of  *)
(* byte 1); the lengths of the prefixes sit at that byte boundary, plus 0. *)
(***************************************************************************)
Addrs == { <<b0, b1, 0, 0>> : b0 \in {0, 1}, b1 \in {0, 128} }
Lens == {0, 8, 9}
Keys == [bits : Addrs, bitCount : Lens]
\* a query is a whole address: addr4.setSize(32)
Queries == [bits : Addrs, bitCount : {N * WORD_BITS}]

(***************************************************************************)
(* BitArray<N>                                                             *)
(***************************************************************************)
Pow2(n) == 2 ^ n

\* BitArray::empty
Empty(key) == key.bitCount = 0

\* BitArray::operator[] const, through ConstIterator::operator*:
\* byte pos / WORD_BITS, mask (1 << (WORD_BITS - 1)) >> (pos % WORD_BITS)
BitOf(bytes, pos) ==
    LET n == pos \div WORD_BITS
        offset == pos % WORD_BITS
        mask == Pow2(WORD_BITS - 1) \div Pow2(offset)
    IN  (bytes[n + 1] \div mask) % 2 = 1

\* bits[i] ^ other.bits[i] on unsigned char
RECURSIVE XorByte(_, _, _)
XorByte(a, b, w) ==
    IF w = 0 THEN 0
    ELSE 2 * XorByte(a \div 2, b \div 2, w - 1) + (((a % 2) + (b % 2)) % 2)

\* __builtin_clz(r) without the correction for the width of int
RECURSIVE ClzByteWide(_)
ClzByteWide(r) ==
    IF r >= Pow2(WORD_BITS - 1) THEN 3 * WORD_BITS ELSE 1 + ClzByteWide(2 * r)

\* __builtin_clz(r) - (sizeof(int) - sizeof(char)) * 8, for 0 < r < 256
RECURSIVE ClzByte(_)
ClzByte(r) == IF r >= Pow2(WORD_BITS - 1) THEN 0 ELSE 1 + ClzByte(2 * r)

\* the loop of BitArray::firstDifferentBit from byte i on
RECURSIVE FdbLoop(_, _, _, _, _)
FdbLoop(a, b, n, i, result) ==
    IF i * 8 < n
    THEN LET r == XorByte(a[i + 1], b[i + 1], WORD_BITS)
         IN  IF r = 0 THEN FdbLoop(a, b, n, i + 1, (i + 1) * 8)
             ELSE i * 8 + ClzByte(r)
    ELSE result

\* firstDifferentBit without "if (result > n) result = n"
FirstDifferentBitUnclamped(a, b, n) == FdbLoop(a, b, n, 0, 0)

\* BitArray::firstDifferentBit(other, n) on the two storages
FirstDifferentBit(a, b, n) ==
    LET result == FdbLoop(a, b, n, 0, 0)
    IN  IF result > n THEN n ELSE result

\* memcmp(bits, other.bits, n) == 0
MemEq(a, b, n) == \A i \in 1..n : a[i] = b[i]

\* compareBits without the comparison of the last, partly covered byte
CompareBitsWholeBytes(self, other, nbits) ==
    IF nbits > self.bitCount \/ nbits > other.bitCount THEN FALSE
    ELSE MemEq(self.bits, other.bits, nbits \div WORD_BITS)

\* compareBits that compares the last, partly covered byte without the mask
CompareBitsUnmasked(self, other, nbits) ==
    IF nbits > self.bitCount \/ nbits > other.bitCount THEN FALSE
    ELSE MemEq(self.bits, other.bits, (nbits + WORD_BITS - 1) \div WORD_BITS)

\* BitArray::compareBits(other, nbits)
CompareBits(self, other, nbits) ==
    IF nbits > self.bitCount \/ nbits > other.bitCount THEN FALSE
    ELSE LET n == nbits \div WORD_BITS
             offset == nbits % WORD_BITS
         IN  IF ~MemEq(self.bits, other.bits, n) THEN FALSE
             ELSE IF offset # 0
                  THEN LET low == Pow2(WORD_BITS - offset)
                           \* x & mask, mask = (~0) << (WORD_BITS - offset)
                           lhs == self.bits[n + 1] - (self.bits[n + 1] % low)
                           rhs == other.bits[n + 1] - (other.bits[n + 1] % low)
                       IN  lhs = rhs
                  ELSE TRUE

\* getByteCount(nbits)
GetByteCount(nbits) == (nbits + 7) \div 8

\* strncmp((const char*)a, (const char*)b, n) from byte i on, as -1, 0 or 1:
\* the bytes are compared as unsigned char and the comparison ends behind a
\* byte that is 0 in both
RECURSIVE Strncmp(_, _, _, _)
Strncmp(a, b, n, i) ==
    IF i >= n THEN 0
    ELSE IF a[i + 1] # b[i + 1] THEN (IF a[i + 1] < b[i + 1] THEN -1 ELSE 1)
    ELSE IF a[i + 1] = 0 THEN 0
    ELSE Strncmp(a, b, n, i + 1)

\* operator<(lhs, rhs)
Less(lhs, rhs) ==
    IF lhs.bitCount < rhs.bitCount THEN TRUE
    ELSE IF lhs.bitCount > rhs.bitCount THEN FALSE
    ELSE Strncmp(lhs.bits, rhs.bits, GetByteCount(lhs.bitCount), 0) < 0

\* operator==(lhs, rhs)
Equals(lhs, rhs) ==
    IF lhs.bitCount = rhs.bitCount THEN CompareBits(lhs, rhs, lhs.bitCount)
    ELSE FALSE

(***************************************************************************)
(* State                                                                   *)
(***************************************************************************)
VARIABLES
    heap,       \* NodeIds -> Node: the node objects (FreeNode when not allocated)
    live,       \* the nodes allocated by new and not yet deleted
    root,       \* BinaryTrie::root
    numNodes,   \* BinaryTrie::numNodes
    status,     \* "ok", or the way the process died
    op,         \* the last operation: its kind, key and the node it ended on
    stored,     \* the keys inserted and not erased since, with the value last assigned
    ins,        \* the keys inserted so far, while nothing else has been done
    freed,      \* the nodes the last operation deleted, one entry per delete
    sp,         \* the explicit stack of the last operation when it was fullest
    twin        \* a second trie, built by the same calls from keys whose
                \* storage differs beyond their length

vars == <<heap, live, root, numNodes, status, op, stored, ins, freed, sp, twin>>

\* Node::Node(key, bits): data is an int no constructor initialises
MkNode(key, bits) ==
    [left |-> NULL, right |-> NULL, parent |-> NULL, data |-> Indet,
     key |-> key, bits |-> bits]

\* BitArray::BitArray(): bitCount 0, storage not written
EmptyKey == [bits |-> Uninit, bitCount |-> 0]

\* Node::Node()
GlueNode == MkNode(EmptyKey, 0)

\* what the model keeps at an address that holds no node
FreeNode == GlueNode

\* the storage of a key as a read sees it: u stands for what a read of
\* never-written storage yields
Storage(key, u) == IF key.bits = Uninit THEN u ELSE key.bits

\* new Node: an address not in use
NewId(used) == CHOOSE n \in NodeIds \ used : \A m \in NodeIds \ used : n <= m

(***************************************************************************)
(* BinaryTrie<N,T>::lookupNode                                             *)
(***************************************************************************)
\* the link lookupNode, searchExact and searchBest follow from node for key
Branch(node, key) ==
    IF BitOf(key.bits, heap[node].bits) THEN heap[node].right ELSE heap[node].left

\* "walk to nearest data node": the first loop of lookupNode
RECURSIVE LookupDescend(_, _)
LookupDescend(node, key) ==
    IF heap[node].bits < key.bitCount \/ Empty(heap[node].key)
    THEN LET Step(next) == IF next = NULL THEN node ELSE LookupDescend(next, key)
         IN  Step(Branch(node, key))
    ELSE node

\* lookupNode without its second loop
WalkBackNone(node, diffBit) == node

\* "walk back before different bit": the second loop of lookupNode
RECURSIVE WalkBack(_, _)
WalkBack(node, diffBit) ==
    LET Step(parent) == IF parent # NULL /\ heap[parent].bits >= diffBit
                        THEN WalkBack(parent, diffBit)
                        ELSE node
    IN  Step(heap[node].parent)

\* where lookupNode stands before it decides what to build: the node after
\* the walk back, diffBit, and the storage of tmpKey
LookupPlace(key, u) ==
    LET From(stop) ==
          LET With(tmpKey, checkBit) ==
                LET At(diffBit) == [node |-> WalkBack(stop, diffBit),
                                    diffBit |-> diffBit, tmpKey |-> tmpKey]
                IN  At(FirstDifferentBit(key.bits, tmpKey, checkBit))
          IN  With(Storage(heap[stop].key, u),
                   IF heap[stop].bits < key.bitCount THEN heap[stop].bits
                   ELSE key.bitCount)
    IN  From(LookupDescend(root, key))

\* which of its branches lookupNode takes at that place
LookupCase(key, pl) ==
    IF pl.diffBit = key.bitCount /\ heap[pl.node].bits = key.bitCount THEN "hit"
    ELSE IF heap[pl.node].bits = pl.diffBit THEN "below"
    ELSE IF key.bitCount = pl.diffBit THEN "above"
    ELSE "fork"

\* the nodes lookupNode(key) allocates
Allocs(key, u) ==
    IF root = NULL THEN 1
    ELSE LET Count(kind) == IF kind = "hit" THEN 0 ELSE IF kind = "fork" THEN 2 ELSE 1
         IN  Count(LookupCase(key, LookupPlace(key, u)))

\* node->parent->right / left = repl, or root = repl when node has no parent
Relink(h, rt, node, repl) ==
    LET Under(p) ==
          IF p = NULL THEN [heap |-> h, root |-> repl]
          ELSE IF h[p].right = node
               THEN [heap |-> [h EXCEPT ![p].right = repl], root |-> rt]
               ELSE [heap |-> [h EXCEPT ![p].left = repl], root |-> rt]
    IN  Under(h[node].parent)

\* "if we are on right node" that makes a new node for the key all the same
LookupHitAgain(key, node) ==
    IF live = NodeIds
    THEN [heap |-> heap, live |-> live, root |-> root, numNodes |-> numNodes,
          ret |-> node]
    ELSE [heap |-> [heap EXCEPT ![NewId(live)] = MkNode(key, key.bitCount)],
          live |-> live \cup {NewId(live)}, root |-> root,
          numNodes |-> numNodes + 1, ret |-> NewId(live)]

\* "if we are on right node return it", setting the prefix of a glue node
LookupHit(key, node) ==
    [heap |-> IF Empty(heap[node].key) THEN [heap EXCEPT ![node].key = key] ELSE heap,
     live |-> live, root |-> root, numNodes |-> numNodes, ret |-> node]

\* "put newNode after current node"
LookupBelow(key, node, newNode) ==
    [heap |-> IF BitOf(key.bits, heap[node].bits)
              THEN [heap EXCEPT ![newNode] = [MkNode(key, key.bitCount)
                                                EXCEPT !.parent = node],
                                ![node].right = newNode]
              ELSE [heap EXCEPT ![newNode] = [MkNode(key, key.bitCount)
                                                EXCEPT !.parent = node],
                                ![node].left = newNode],
     live |-> live \cup {newNode}, root |-> root, numNodes |-> numNodes + 1,
     ret |-> newNode]

\* "put newNode before current node" that always hangs the node found on
\* the left link of newNode
LookupAboveLeft(key, node, tmpKey, newNode) ==
    LET Splice(rl) ==
          [heap |-> [rl.heap EXCEPT ![node].parent = newNode],
           live |-> live \cup {newNode}, root |-> rl.root,
           numNodes |-> numNodes + 1, ret |-> newNode]
    IN  Splice(Relink([heap EXCEPT ![newNode] =
                         [MkNode(key, key.bitCount)
                            EXCEPT !.left = node, !.parent = heap[node].parent]],
                      root, node, newNode))

\* "put newNode before current node"
LookupAbove(key, node, tmpKey, newNode) ==
    LET Splice(rl) ==
          [heap |-> [rl.heap EXCEPT ![node].parent = newNode],
           live |-> live \cup {newNode}, root |-> rl.root,
           numNodes |-> numNodes + 1, ret |-> newNode]
    IN  Splice(Relink([heap EXCEPT ![newNode] =
                         IF BitOf(tmpKey, key.bitCount)
                         THEN [MkNode(key, key.bitCount)
                                 EXCEPT !.right = node, !.parent = heap[node].parent]
                         ELSE [MkNode(key, key.bitCount)
                                 EXCEPT !.left = node, !.parent = heap[node].parent]],
                      root, node, newNode))

\* "put newNode next to current node", under a new glue node
LookupFork(key, node, diffBit, newNode, glue) ==
    LET Splice(rl) ==
          [heap |-> [rl.heap EXCEPT ![node].parent = glue],
           live |-> live \cup {newNode, glue}, root |-> rl.root,
           numNodes |-> numNodes + 2, ret |-> newNode]
    IN  Splice(Relink([heap EXCEPT
                         ![newNode] = [MkNode(key, key.bitCount) EXCEPT !.parent = glue],
                         ![glue] =
                            IF BitOf(key.bits, diffBit)
                            THEN [GlueNode EXCEPT !.bits = diffBit,
                                                  !.parent = heap[node].parent,
                                                  !.right = newNode, !.left = node]
                            ELSE [GlueNode EXCEPT !.bits = diffBit,
                                                  !.parent = heap[node].parent,
                                                  !.right = node, !.left = newNode]],
                      root, node, glue))

\* lookupNode(key): the trie afterwards and, in ret, the node returned
LookupNode(key, u) ==
    IF root = NULL
    THEN LET Make(newNode) ==
               [heap |-> [heap EXCEPT ![newNode] = MkNode(key, key.bitCount)],
                live |-> live \cup {newNode}, root |-> newNode,
                numNodes |-> numNodes + 1, ret |-> newNode]
         IN  Make(NewId(live))
    ELSE LET Build(pl, kind) ==
               IF kind = "hit" THEN LookupHit(key, pl.node)
               ELSE IF kind = "below" THEN LookupBelow(key, pl.node, NewId(live))
               ELSE IF kind = "above"
                    THEN LookupAbove(key, pl.node, pl.tmpKey, NewId(live))
               ELSE LookupFork(key, pl.node, pl.diffBit, NewId(live),
                               NewId(live \cup {NewId(live)}))
             At(pl) == Build(pl, LookupCase(key, pl))
         IN  At(LookupPlace(key, u))

(***************************************************************************)
(* BinaryTrie<N,T>::searchExact and searchBest                             *)
(***************************************************************************)
\* the loop of searchExact: NULL "on trie bottom"
RECURSIVE ExactDescend(_, _)
ExactDescend(node, key) ==
    IF heap[node].bits < key.bitCount
    THEN LET Step(next) == IF next = NULL THEN NULL ELSE ExactDescend(next, key)
         IN  Step(Branch(node, key))
    ELSE node

SearchExact(key) ==
    IF root = NULL THEN NULL
    ELSE LET Check(node) ==
               IF node = NULL THEN NULL
               ELSE IF heap[node].bits > key.bitCount \/ Empty(heap[node].key)
                    THEN NULL
               ELSE IF CompareBits(key, heap[node].key, key.bitCount) THEN node
               ELSE NULL
         IN  Check(ExactDescend(root, key))

\* the first loop of searchBest: the node it ends on and the stack so far
RECURSIVE BestDescend(_, _, _)
BestDescend(node, key, stack) ==
    IF heap[node].bits < key.bitCount
    THEN LET Step(st, next) == IF next = NULL THEN [node |-> NULL, stack |-> st]
                               ELSE BestDescend(next, key, st)
         IN  Step(IF ~Empty(heap[node].key) THEN Append(stack, node) ELSE stack,
                  Branch(node, key))
    ELSE [node |-> node, stack |-> stack]

\* the stack of searchBest when its second loop starts
BestStack(key) ==
    LET Last(d) == IF d.node # NULL /\ ~Empty(heap[d.node].key)
                   THEN Append(d.stack, d.node) ELSE d.stack
    IN  Last(BestDescend(root, key, << >>))

\* the second loop of searchBest: pop until a key matches
RECURSIVE BestPop(_, _, _)
BestPop(key, stack, cnt) ==
    IF cnt = 0 THEN NULL
    ELSE IF CompareBits(key, heap[stack[cnt]].key, heap[stack[cnt]].key.bitCount)
            /\ heap[stack[cnt]].key.bitCount <= key.bitCount
         THEN stack[cnt]
         ELSE BestPop(key, stack, cnt - 1)

SearchBest(key) ==
    IF root = NULL THEN NULL
    ELSE LET Pop(stack) == BestPop(key, stack, Len(stack))
         IN  Pop(BestStack(key))

(***************************************************************************)
(* BinaryTrie<N,T>::removeNode                                             *)
(***************************************************************************)
\* delete n
Delete(h, n) == [h EXCEPT ![n] = FreeNode]

\* "if node has children" that counts the node as removed
RemoveInnerCounted(node) ==
    [heap |-> [heap EXCEPT ![node].key = EmptyKey], live |-> live,
     root |-> root, numNodes |-> numNodes - 1, fault |-> "none"]

\* "if node has children": the key is set to key_type(), the node stays
RemoveInner(node) ==
    [heap |-> [heap EXCEPT ![node].key = EmptyKey], live |-> live,
     root |-> root, numNodes |-> numNodes, fault |-> "none"]

\* removeNode of a leaf that never deletes the glue parent with it
RemoveLeafKeepGlue(node, parent) ==
    IF parent = NULL
    THEN [heap |-> Delete(heap, node), live |-> live \ {node}, root |-> NULL,
          numNodes |-> numNodes - 1, fault |-> "double_free"]
    ELSE [heap |-> IF heap[parent].right = node
                   THEN [Delete(heap, node) EXCEPT ![parent].right = NULL]
                   ELSE [Delete(heap, node) EXCEPT ![parent].left = NULL],
          live |-> live \ {node}, root |-> root, numNodes |-> numNodes - 1,
          fault |-> "none"]

\* "when node is leaf".  fault tells what went wrong on the way:
\* "double_free" is the delete of a node already deleted, "null_deref" the
\* write through a null Node*, after which nothing more is executed.
RemoveLeaf(node, parent) ==
    IF parent = NULL
    THEN \* "this was last node": delete node; root = NULL; delete node
         [heap |-> Delete(heap, node), live |-> live \ {node}, root |-> NULL,
          numNodes |-> numNodes - 1,
          fault |-> "double_free"]
    ELSE LET Unlinked(h, child) ==
               IF ~Empty(h[parent].key)
               THEN \* "if parent is data node we are finished"
                    [heap |-> h, live |-> live \ {node}, root |-> root,
                     numNodes |-> numNodes - 1, fault |-> "none"]
               ELSE LET Spliced(rl) ==
                          IF child = NULL
                          THEN \* child->parent = parent->parent with no child
                               [heap |-> rl.heap, live |-> live \ {node},
                                root |-> rl.root, numNodes |-> numNodes - 1,
                                fault |-> "null_deref"]
                          ELSE [heap |-> Delete([rl.heap EXCEPT ![child].parent =
                                                    h[parent].parent], parent),
                                live |-> live \ {node, parent}, root |-> rl.root,
                                numNodes |-> numNodes - 2, fault |-> "none"]
                    IN  Spliced(Relink(h, root, parent, child))
         IN  IF heap[parent].right = node
             THEN Unlinked([Delete(heap, node) EXCEPT ![parent].right = NULL],
                           heap[parent].left)
             ELSE Unlinked([Delete(heap, node) EXCEPT ![parent].left = NULL],
                           heap[parent].right)

\* "node has 1 child" without "child->parent = parent"
RemoveSingleNoParent(node, child, parent) ==
    IF parent = NULL
    THEN [heap |-> Delete(heap, node),
          live |-> live \ {node}, root |-> child, numNodes |-> numNodes - 1,
          fault |-> "none"]
    ELSE [heap |-> Delete(Relink(heap, root, node, child).heap, node),
          live |-> live \ {node}, root |-> root, numNodes |-> numNodes - 1,
          fault |-> "none"]

\* "node has 1 child"
RemoveSingle(node, child, parent) ==
    IF parent = NULL
    THEN [heap |-> Delete([heap EXCEPT ![child].parent = parent], node),
          live |-> live \ {node}, root |-> child, numNodes |-> numNodes - 1,
          fault |-> "none"]
    ELSE [heap |-> Delete(Relink([heap EXCEPT ![child].parent = parent],
                                 root, node, child).heap, node),
          live |-> live \ {node}, root |-> root, numNodes |-> numNodes - 1,
          fault |-> "none"]

\* removeNode(node): the trie afterwards
RemoveNode(node) ==
    IF heap[node].right # NULL /\ heap[node].left # NULL THEN RemoveInner(node)
    ELSE IF heap[node].right = NULL /\ heap[node].left = NULL
         THEN RemoveLeaf(node, heap[node].parent)
    ELSE RemoveSingle(node,
                      IF heap[node].right # NULL THEN heap[node].right
                      ELSE heap[node].left,
                      heap[node].parent)

\* the nodes removeNode(node) hands to delete, in the order of its deletes
RemoveFrees(node) ==
    IF heap[node].right # NULL /\ heap[node].left # NULL THEN << >>
    ELSE IF heap[node].right = NULL /\ heap[node].left = NULL
         THEN LET Of(parent) ==
                    IF parent = NULL THEN <<node, node>>
                    ELSE IF ~Empty(heap[parent].key) THEN <<node>>
                    ELSE IF (IF heap[parent].right = node THEN heap[parent].left
                             ELSE heap[parent].right) = NULL
                         THEN <<node>>
                    ELSE <<node, parent>>
              IN  Of(heap[node].parent)
    ELSE <<node>>

(***************************************************************************)
(* BinaryTrie<N,T>::clear                                                  *)
(***************************************************************************)
\* clear that never pushes the right child of a node with two children
ClearPushDrop(stack, right) == stack

\* clear that pushes the right child twice
ClearPushTwice(stack, right) == Append(Append(stack, right), right)

\* "*sp++ = right"
ClearPush(stack, right) == Append(stack, right)

\* the loop of clear from node on: h and lv are the heap and the live nodes
\* so far, stack the explicit stack, done the nodes deleted so far and top
\* the stack when it held the most entries.  The loop reads node->right and
\* node->left before "delete node"; a node that is not live is one it must
\* not read: the walk ends there with fault "use_after_free".
RECURSIVE ClearWalk(_, _, _, _, _, _)
ClearWalk(h, lv, node, stack, done, top) ==
    IF node = NULL
    THEN [heap |-> h, live |-> lv, freed |-> done, top |-> top, fault |-> "none"]
    ELSE IF node \notin lv
    THEN [heap |-> h, live |-> lv, freed |-> done, top |-> top,
          fault |-> "use_after_free"]
    ELSE LET Step(right, left) ==
               IF left # NULL
               THEN IF right # NULL
                    THEN LET Pushed(st) ==
                               ClearWalk(Delete(h, node), lv \ {node}, left, st,
                                         Append(done, node),
                                         IF Len(st) > Len(top) THEN st ELSE top)
                         IN  Pushed(ClearPush(stack, right))
                    ELSE ClearWalk(Delete(h, node), lv \ {node}, left, stack,
                                   Append(done, node), top)
               ELSE IF right # NULL
               THEN ClearWalk(Delete(h, node), lv \ {node}, right, stack,
                              Append(done, node), top)
               ELSE IF stack # << >>
               THEN ClearWalk(Delete(h, node), lv \ {node}, stack[Len(stack)],
                              SubSeq(stack, 1, Len(stack) - 1),
                              Append(done, node), top)
               ELSE ClearWalk(Delete(h, node), lv \ {node}, NULL, stack,
                              Append(done, node), top)
         IN  Step(h[node].right, h[node].left)

(***************************************************************************)
(* Node addresses.  The program uses a Node* only to follow it and to      *)
(* compare it with another Node*, so tries that differ only in where their *)
(* nodes lie behave alike; after each operation the nodes are renumbered   *)
(* in preorder (left before right), nodes the root does not reach last.    *)
(***************************************************************************)
RECURSIVE Preorder(_, _)
Preorder(h, n) ==
    IF n = NULL THEN << >>
    ELSE <<n>> \o Preorder(h, h[n].left) \o Preorder(h, h[n].right)

RECURSIVE Ascending(_)
Ascending(S) ==
    IF S = {} THEN << >>
    ELSE LET Min(m) == <<m>> \o Ascending(S \ {m})
         IN  Min(CHOOSE x \in S : \A y \in S : x <= y)

\* the new number of node n when the nodes are numbered as in order
Position(order, n) ==
    IF n = NULL THEN NULL
    ELSE IF \E i \in 1..Len(order) : order[i] = n
         THEN CHOOSE i \in 1..Len(order) : order[i] = n
         ELSE MaxNodes + n      \* a pointer to a deleted node

Renumber(r) ==
    LET As(order) ==
          [heap |-> [i \in NodeIds |->
                       IF i <= Len(order)
                       THEN [r.heap[order[i]] EXCEPT !.left = Position(order, @),
                                                     !.right = Position(order, @),
                                                     !.parent = Position(order, @)]
                       ELSE FreeNode],
           live |-> 1..Len(order),
           root |-> Position(order, r.root),
           numNodes |-> r.numNodes,
           ret |-> Position(order, r.ret),
           fault |-> r.fault]
        From(pre) == As(pre \o Ascending(r.live \ {pre[i] : i \in 1..Len(pre)}))
    IN  From(Preorder(r.heap, r.root))

(***************************************************************************)
(* The keys as the specification sees them: a length and that many bits.   *)
(***************************************************************************)
Norm(key) == [len |-> key.bitCount,
              pre |-> [i \in 1..key.bitCount |-> BitOf(key.bits, i - 1)]]

\* k is a prefix of q (both normalised)
Covers(k, q) == k.len <= q.len /\ \A i \in 1..k.len : k.pre[i] = q.pre[i]

\* stored with k given the value w (Keep: the value it has, Indet if new)
Put(st, k, w) ==
    [x \in DOMAIN st \cup {k} |->
        IF x = k
        THEN (IF w # Keep THEN w ELSE IF k \in DOMAIN st THEN st[k] ELSE Indet)
        ELSE st[x]]

\* stored without k
Drop(st, k) == [x \in DOMAIN st \ {k} |-> st[x]]

(***************************************************************************)
(* Operations                                                              *)
(***************************************************************************)
Idle == [kind |-> "idle", key |-> EmptyKey, ret |-> NULL, fault |-> "none"]

NoKeys == [x \in {} |-> Indet]

\* no second trie
NoTwin == [kind |-> "none"]

\* BinaryTrie(): root(NULL), numNodes(0)
EmptyTrie ==
    /\ heap = [n \in NodeIds |-> FreeNode]
    /\ live = {}
    /\ root = NULL
    /\ numNodes = 0
    /\ status = "ok"
    /\ stored = NoKeys
    /\ ins = << >>
    /\ freed = << >>
    /\ sp = << >>

InitTrie ==
    /\ EmptyTrie
    /\ op = Idle

Init ==
    /\ InitTrie
    /\ twin = NoTwin

\* root points to a node that was deleted: clear() deletes every node and
\* leaves root as it was
Dangling == root # NULL /\ root \notin live

\* an operation that reads *root while root is dangling: the behaviour is
\* undefined from there on, and the model does not follow it further
ReadFreed(kind, key) ==
    /\ status = "ok"
    /\ Dangling
    /\ op' = [kind |-> kind, key |-> key, ret |-> NULL, fault |-> "use_after_free"]
    /\ status' = "undefined"
    /\ freed' = << >>
    /\ sp' = << >>
    /\ UNCHANGED <<heap, live, root, numNodes, stored>>

\* what a read of the storage lookupNode compares key with can yield: the
\* storage of a key built by BitArray() was never written
UninitReads(key) ==
    IF root # NULL /\ heap[LookupDescend(root, key)].key.bits = Uninit
    THEN Addrs ELSE {<<0, 0, 0, 0>>}

\* "node->data = w" on the node operator[] returned, when w is a value
Assign(r, w) ==
    IF w # Keep THEN [r EXCEPT !.heap = [r.heap EXCEPT ![r.ret].data = w]] ELSE r

\* operator[](key), followed by "= w" when w is a value (dict4[addr4] = as)
DoInsert(key, w) ==
    /\ status = "ok"
    /\ ~Dangling
    /\ freed' = << >>
    /\ sp' = << >>
    /\ \E u \in UninitReads(key) :
         /\ Cardinality(live) + 2 <= MaxNodes
              \/ Cardinality(live) + Allocs(key, u) <= MaxNodes
         /\ \E r \in {Renumber(Assign(LookupNode(key, u), w) @@ [fault |-> "none"])} :
              /\ heap' = r.heap
              /\ live' = r.live
              /\ root' = r.root
              /\ numNodes' = r.numNodes
              /\ op' = [kind |-> "insert", key |-> key, ret |-> r.ret,
                        fault |-> "none"]
    /\ stored' = Put(stored, Norm(key), w)
    /\ status' = "ok"

\* how the process goes on after a fault: a write through a null pointer
\* ends it, a second delete of a node may end it or pass unnoticed
Outcomes(fault) ==
    IF fault = "null_deref" THEN {"dead"}
    ELSE IF fault = "double_free" THEN {"ok", "dead"}
    ELSE {"ok"}

\* erase(key)
DoErase(key) ==
    /\ status = "ok"
    /\ ~Dangling
    /\ sp' = << >>
    /\ \E node \in {SearchExact(key)} :
         IF node = NULL
         THEN \* throw std::out_of_range
              /\ UNCHANGED <<heap, live, root, numNodes, status, stored>>
              /\ freed' = << >>
              /\ op' = [kind |-> "erase", key |-> key, ret |-> NULL, fault |-> "none"]
         ELSE \E r \in {Renumber(RemoveNode(node) @@ [ret |-> NULL])} :
                /\ heap' = r.heap
                /\ live' = r.live
                /\ root' = r.root
                /\ numNodes' = r.numNodes
                /\ status' \in Outcomes(r.fault)
                /\ op' = [kind |-> "erase", key |-> key, ret |-> node,
                          fault |-> r.fault]
                /\ stored' = Drop(stored, Norm(key))
                /\ freed' = RemoveFrees(node)

\* at(key) that finds its node with lookupNode
DoAtByLookup(key) ==
    /\ status = "ok"
    /\ ~Dangling
    /\ freed' = << >>
    /\ sp' = << >>
    /\ \E u \in UninitReads(key) :
         /\ Cardinality(live) + 2 <= MaxNodes
              \/ Cardinality(live) + Allocs(key, u) <= MaxNodes
         /\ \E r \in {Renumber(LookupNode(key, u) @@ [fault |-> "none"])} :
              /\ heap' = r.heap
              /\ live' = r.live
              /\ root' = r.root
              /\ numNodes' = r.numNodes
              /\ op' = [kind |-> "at", key |-> key, ret |-> r.ret, fault |-> "none"]
    /\ UNCHANGED <<status, stored>>

\* at(key)
DoAt(key) ==
    /\ status = "ok"
    /\ ~Dangling
    /\ op' = [kind |-> "at", key |-> key, ret |-> SearchExact(key), fault |-> "none"]
    /\ freed' = << >>
    /\ sp' = << >>
    /\ UNCHANGED <<heap, live, root, numNodes, status, stored>>

\* best(key)
DoBest(key) ==
    /\ status = "ok"
    /\ ~Dangling
    /\ op' = [kind |-> "best", key |-> key, ret |-> SearchBest(key), fault |-> "none"]
    /\ freed' = << >>
    /\ sp' = IF root = NULL THEN << >> ELSE BestStack(key)
    /\ UNCHANGED <<heap, live, root, numNodes, status, stored>>

\* clear(), called by the program (kind "clear") or by ~BinaryTrie (kind
\* "destroy", after which the trie is gone)
DoClear(kind) ==
    /\ status = "ok"
    /\ \E r \in {IF root = NULL
                 THEN [heap |-> heap, live |-> live, freed |-> << >>, top |-> << >>,
                       fault |-> "none"]
                 ELSE ClearWalk(heap, live, root, << >>, << >>, << >>)} :
         /\ heap' = r.heap
         /\ live' = r.live
         /\ freed' = r.freed
         /\ sp' = r.top
         /\ numNodes' = IF root # NULL /\ r.fault = "none" THEN 0 ELSE numNodes
         /\ status' = IF r.fault # "none" THEN "undefined"
                      ELSE IF kind = "destroy" THEN "destroyed" ELSE "ok"
         /\ op' = [kind |-> kind, key |-> EmptyKey, ret |-> NULL, fault |-> r.fault]
    /\ root' = root
    /\ stored' = NoKeys

InsertOrGet(key, w) ==
    /\ op.kind = "idle"
    /\ DoInsert(key, w) \/ ReadFreed("insert", key)
    /\ UNCHANGED <<ins, twin>>

Erase(key) ==
    /\ op.kind = "idle"
    /\ DoErase(key) \/ ReadFreed("erase", key)
    /\ UNCHANGED <<ins, twin>>

At(key) ==
    /\ op.kind = "idle"
    /\ DoAt(key) \/ ReadFreed("at", key)
    /\ UNCHANGED <<ins, twin>>

Best(key) ==
    /\ op.kind = "idle"
    /\ DoBest(key) \/ ReadFreed("best", key)
    /\ UNCHANGED <<ins, twin>>

Clear ==
    /\ op.kind = "idle"
    /\ DoClear("clear")
    /\ UNCHANGED <<ins, twin>>

\* ~BinaryTrie
Destroy ==
    /\ op.kind = "idle"
    /\ DoClear("destroy")
    /\ UNCHANGED <<ins, twin>>

\* the caller has used the result (or caught the exception) and goes on to
\* its next call
Return ==
    /\ status = "ok"
    /\ op.kind # "idle"
    /\ op' = Idle
    /\ freed' = << >>
    /\ sp' = << >>
    /\ UNCHANGED <<heap, live, root, numNodes, status, stored, ins, twin>>

Next ==
    \/ \E key \in Keys, w \in Vals \cup {Keep} : InsertOrGet(key, w)
    \/ \E key \in Keys : At(key)
    \/ \E key \in Queries : Best(key)
    \/ \E key \in Keys : Erase(key)
    \/ Clear
    \/ Destroy
    \/ Return

Spec == Init /\ [][Next]_vars

(***************************************************************************)
(* Insertions followed by the matching erasures in reverse order           *)
(***************************************************************************)
\* insert_or_get of a key not inserted before, while nothing was erased
RevInsert(key) ==
    /\ op.kind \in {"idle", "insert"}
    /\ \A i \in 1..Len(ins) : Norm(ins[i]) # Norm(key)
    /\ DoInsert(key, Keep)
    /\ ins' = Append(ins, key)
    /\ UNCHANGED twin

\* erase of the key inserted last among those not erased yet
RevErase ==
    /\ ins # << >>
    /\ DoErase(ins[Len(ins)])
    /\ ins' = SubSeq(ins, 1, Len(ins) - 1)
    /\ UNCHANGED twin

NextRev ==
    \/ \E key \in Keys : RevInsert(key)
    \/ RevErase

SpecRev == Init /\ [][NextRev]_vars

(***************************************************************************)
(* Two tries built by the same calls from keys that agree in length and in *)
(* the bits below their length, and differ in the storage beyond it: the   *)
(* loader copies a whole address and then calls setSize (main.cpp), so the *)
(* bits at positions >= size() are whatever the address had there.  The    *)
(* operations always run on the trie in heap, root, live, numNodes; the    *)
(* other trie waits in twin.  A call runs on the first trie with a key     *)
(* whose storage is 0 beyond its length, the tries change places, and the  *)
(* call runs on the second trie with any key that differs from the first   *)
(* only beyond its length.                                                  *)
(***************************************************************************)
\* addresses that also differ at bit 9
JunkAddrs == { <<b0, b1, 0, 0>> : b0 \in {0, 1}, b1 \in {0, 64, 128, 192} }

\* the keys with the length of key and its first bits
JunkKeys(key) ==
    {k \in [bits : JunkAddrs, bitCount : {key.bitCount}] : Norm(k) = Norm(key)}

\* the keys of Keys with 0 at every position >= their length
LeadKeys ==
    {k \in Keys : \A i \in k.bitCount..(N * WORD_BITS - 1) : ~BitOf(k.bits, i)}

TwinCalls ==
    [kind : {"insert", "at", "erase"}, key : LeadKeys, w : {Keep}]
      \cup [kind : {"best"}, key : Queries, w : {Keep}]

\* the trie in heap, root, ... as a record
ThisTrie ==
    [heap |-> heap, live |-> live, root |-> root, numNodes |-> numNodes,
     status |-> status, op |-> op, freed |-> freed, sp |-> sp]

InitTwin ==
    /\ InitTrie
    /\ twin = [kind |-> "idle",
               trie |-> [heap |-> [n \in NodeIds |-> FreeNode], live |-> {},
                         root |-> NULL, numNodes |-> 0, status |-> "ok",
                         op |-> Idle, freed |-> << >>, sp |-> << >>],
               call |-> [kind |-> "none", key |-> EmptyKey, w |-> Keep]]

\* one call of the program on the trie in heap, root, ...
TwinCall(call, key) ==
    \/ call.kind = "insert" /\ DoInsert(key, call.w)
    \/ call.kind = "at" /\ DoAt(key)
    \/ call.kind = "best" /\ DoBest(key)
    \/ call.kind = "erase" /\ DoErase(key)

\* the call on the first trie
TwinLead(call) ==
    /\ twin.kind = "idle"
    /\ TwinCall(call, call.key)
    /\ twin' = [twin EXCEPT !.kind = "led", !.call = call]
    /\ UNCHANGED ins

\* the tries change places
TwinSwap ==
    /\ twin.kind = "led"
    /\ heap' = twin.trie.heap
    /\ live' = twin.trie.live
    /\ root' = twin.trie.root
    /\ numNodes' = twin.trie.numNodes
    /\ status' = twin.trie.status
    /\ op' = twin.trie.op
    /\ freed' = twin.trie.freed
    /\ sp' = twin.trie.sp
    /\ twin' = [twin EXCEPT !.kind = "swapped", !.trie = ThisTrie]
    /\ UNCHANGED <<stored, ins>>

\* the same call on the second trie, with a key that has other bits beyond
\* its length
TwinFollow(key) ==
    /\ twin.kind = "swapped"
    /\ key \in JunkKeys(twin.call.key)
    /\ TwinCall(twin.call, key)
    /\ twin' = [twin EXCEPT !.kind = "synced"]
    /\ UNCHANGED ins

\* both callers have used the result and go on to the next call
TwinReturn ==
    /\ twin.kind = "synced"
    /\ op' = Idle
    /\ freed' = << >>
    /\ sp' = << >>
    /\ twin' = [twin EXCEPT !.kind = "idle", !.trie.op = Idle,
                            !.trie.freed = << >>, !.trie.sp = << >>]
    /\ UNCHANGED <<heap, live, root, numNodes, status, stored, ins>>

NextTwin ==
    \/ \E call \in TwinCalls : TwinLead(call)
    \/ TwinSwap
    \/ TwinReturn
    \/ \E key \in [bits : JunkAddrs, bitCount : Lens \cup {N * WORD_BITS}] :
         TwinFollow(key)

SpecTwin == InitTwin /\ [][NextTwin]_vars

(***************************************************************************)
(* The functions of BitArray on their own: a call with its arguments is    *)
(* chosen at the start and then made.                                      *)
(***************************************************************************)
\* storages whose bytes 0 and 1 differ at bit 0, 3 or 7 of the byte, or are 0
BitBytes == {0, 1, 16, 128}
BitStorages == { <<x, y, 0, z>> : x \in BitBytes, y \in BitBytes, z \in {0, 16} }
CmpLens == {0, 8, 9, 16, N * WORD_BITS}
BitArrays == [bits : BitStorages, bitCount : CmpLens]

BitCalls ==
    [kind : {"call"}, fn : {"firstDifferentBit"}, lhs : BitStorages,
     rhs : BitStorages, n : 0..(N * WORD_BITS), ret : {0}]
      \cup [kind : {"call"}, fn : {"less", "equals"}, lhs : BitArrays,
            rhs : BitArrays, n : {0}, ret : {0}]

InitBits ==
    /\ EmptyTrie
    /\ twin = NoTwin
    /\ op \in BitCalls

\* lhs.firstDifferentBit(rhs, n)
CallFirstDifferentBit ==
    /\ op.kind = "call" /\ op.fn = "firstDifferentBit"
    /\ op' = [op EXCEPT !.kind = "done",
                        !.ret = FirstDifferentBit(op.lhs, op.rhs, op.n)]
    /\ UNCHANGED <<heap, live, root, numNodes, status, stored, ins, freed, sp, twin>>

\* lhs < rhs
CallLess ==
    /\ op.kind = "call" /\ op.fn = "less"
    /\ op' = [op EXCEPT !.kind = "done", !.ret = Less(op.lhs, op.rhs)]
    /\ UNCHANGED <<heap, live, root, numNodes, status, stored, ins, freed, sp, twin>>

\* lhs == rhs
CallEquals ==
    /\ op.kind = "call" /\ op.fn = "equals"
    /\ op' = [op EXCEPT !.kind = "done", !.ret = Equals(op.lhs, op.rhs)]
    /\ UNCHANGED <<heap, live, root, numNodes, status, stored, ins, freed, sp, twin>>

NextBits ==
    \/ CallFirstDifferentBit
    \/ CallLess
    \/ CallEquals

SpecBits == InitBits /\ [][NextBits]_vars

(***************************************************************************)
(* Properties                                                              *)
(***************************************************************************)
AllKeys == Keys \cup Queries

\* the stored keys that are prefixes of q
Covering(q) == {k \in DOMAIN stored : Covers(k, Norm(q))}

\* the longest of a non-empty set of prefixes of one key
Longest(c) == CHOOSE k \in c : \A j \in c : j.len <= k.len

\* node n carries the value last assigned to the stored key k (a key that
\* was inserted without an assignment has no value to compare with)
HasValueOf(n, k) == stored[k] = Indet \/ heap[n].data = stored[k]

\* the key of length 0
ZeroKey == [len |-> 0, pre |-> << >>]

\* C1: best_match(q) returns the payload of the longest stored key that is a
\* prefix of q, for stored keys of every length in [0, N*8]: whenever some
\* stored key covers q, searchBest(q) ends on the node that holds the longest
\* of them, and that node carries the value last assigned to it.
C1_BestIsLongestStored ==
    status = "ok" =>
      \A q \in AllKeys :
        Covering(q) # {} =>
          /\ SearchBest(q) # NULL
          /\ Norm(heap[SearchBest(q)].key) = Longest(Covering(q))
          /\ HasValueOf(SearchBest(q), Longest(Covering(q)))

\* C1 with no key of length 0 inserted
C1_BestIsLongestNonEmpty ==
    (status = "ok" /\ ZeroKey \notin DOMAIN stored) =>
      \A q \in AllKeys :
        Covering(q) # {} =>
          SearchBest(q) # NULL
          /\ Norm(heap[SearchBest(q)].key) = Longest(Covering(q))
          /\ HasValueOf(SearchBest(q), Longest(Covering(q)))

\* C2: best_match(q) signals NotFound exactly when no stored key is a prefix
\* of q.
C2_NotFoundIffUncovered ==
    status = "ok" =>
      \A q \in AllKeys : (SearchBest(q) = NULL) <=> (Covering(q) = {})

\* C2 with no key of length 0 inserted
C2_NotFoundIffUncoveredNonEmpty ==
    (status = "ok" /\ ZeroKey \notin DOMAIN stored) =>
      \A q \in AllKeys : (SearchBest(q) = NULL) <=> (Covering(q) = {})

\* C3: right after insert_or_get(k), get_exact(k) succeeds and returns the
\* node insert_or_get(k) returned.
C3_ExactAfterInsert ==
    (status = "ok" /\ op.kind = "insert") =>
      (SearchExact(op.key) # NULL /\ SearchExact(op.key) = op.ret)

\* C3 for keys of length at least 1
C3_ExactAfterInsertNonEmpty ==
    (status = "ok" /\ op.kind = "insert" /\ op.key.bitCount > 0) =>
      (SearchExact(op.key) # NULL /\ SearchExact(op.key) = op.ret)

\* C4: get_exact(k) returns a payload if and only if a key with the same
\* length and the same first k.len bits is currently stored.
C4_ExactIffStored ==
    status = "ok" =>
      \A k \in AllKeys : (SearchExact(k) # NULL) <=> (Norm(k) \in DOMAIN stored)

\* C4 for keys of length at least 1
C4_ExactIffStoredNonEmpty ==
    status = "ok" =>
      \A k \in AllKeys :
        k.bitCount > 0 =>
          /\ (SearchExact(k) # NULL) <=> (Norm(k) \in DOMAIN stored)
          /\ SearchExact(k) # NULL => Norm(heap[SearchExact(k)].key) = Norm(k)

\* C5: assignment is last-write-wins: get_exact(k) returns the value most
\* recently assigned to a stored key k, and best_match(q) returns it for
\* every q that k covers while no longer stored key covers q.
C5_LastWriteWins ==
    status = "ok" =>
      \A k \in Keys :
        (Norm(k) \in DOMAIN stored /\ stored[Norm(k)] # Indet) =>
          /\ SearchExact(k) # NULL
          /\ heap[SearchExact(k)].data = stored[Norm(k)]
          /\ \A q \in AllKeys :
               (Covers(Norm(k), Norm(q))
                  /\ \A j \in Covering(q) : j.len <= k.bitCount) =>
                 (SearchBest(q) # NULL
                    /\ heap[SearchBest(q)].data = stored[Norm(k)])

\* C5 for keys of length at least 1
C5_LastWriteWinsNonEmpty ==
    status = "ok" =>
      \A k \in Keys :
        (k.bitCount > 0 /\ Norm(k) \in DOMAIN stored /\ stored[Norm(k)] # Indet) =>
          /\ SearchExact(k) # NULL
          /\ heap[SearchExact(k)].data = stored[Norm(k)]
          /\ \A q \in AllKeys :
               (Covers(Norm(k), Norm(q))
                  /\ \A j \in Covering(q) : j.len <= k.bitCount) =>
                 (SearchBest(q) # NULL
                    /\ heap[SearchBest(q)].data = stored[Norm(k)])

\* C6: reinsertion is idempotent: in the state right after insert_or_get(k),
\* a second insert_or_get(k) returns the node the first returned, allocates
\* no node and leaves size() and every node (links, bits, key, payload)
\* unchanged.
C6_ReinsertIdempotent ==
    (status = "ok" /\ op.kind = "insert") =>
      \A u \in UninitReads(op.key) :
        /\ Allocs(op.key, u) = 0
        /\ LookupNode(op.key, u).ret = op.ret
        /\ LookupNode(op.key, u).heap = heap
        /\ LookupNode(op.key, u).live = live
        /\ LookupNode(op.key, u).root = root
        /\ LookupNode(op.key, u).numNodes = numNodes

\* a first insertion that ended on a node with two subtrees (a glue node it
\* gave its key to, or a node it spliced in), which the second call finds
C6_Witness ==
    /\ status = "ok" /\ op.kind = "insert"
    /\ heap[op.ret].left # NULL /\ heap[op.ret].right # NULL
    /\ op.key.bitCount > 0
    /\ LookupNode(op.key, <<0, 0, 0, 0>>).ret = op.ret

\* C7: from an empty trie, insert_or_get of distinct keys followed by erase
\* of the same keys in reverse order: every erase succeeds (no NotFound, no
\* fault) and at the end empty() holds and size() is 0.
C7_ReverseEraseEmpties ==
    /\ op.kind = "erase" => (op.ret # NULL /\ op.fault = "none")
    /\ (op.kind = "erase" /\ ins = << >> /\ status = "ok") =>
         (root = NULL /\ numNodes = 0)

\* C7 with no key of length 0 inserted, and with the second delete of the
\* last node not counted as a fault
C7_ReverseEraseEmptiesNonEmpty ==
    (\A i \in 1..Len(ins) : ins[i].bitCount > 0) /\ ZeroKey \notin DOMAIN stored =>
      /\ op.kind = "erase" => (op.ret # NULL /\ op.fault \in {"none", "double_free"})
      /\ op.kind = "erase" => (op.fault = "double_free" <=> ins = << >>)
      /\ (op.kind = "erase" /\ ins = << >> /\ status = "ok") =>
           (root = NULL /\ numNodes = 0)

C8_EraseRemovesOnlyKeyNonEmpty ==
    (status = "ok" /\ op.kind = "erase" /\ op.ret # NULL /\ op.fault = "none"
       /\ ZeroKey \notin DOMAIN stored) =>
      /\ SearchExact(op.key) = NULL
      /\ \A q \in AllKeys :
           SearchBest(q) # NULL => Norm(heap[SearchBest(q)].key) # Norm(op.key)
      /\ \A k \in Keys :
           Norm(k) \in DOMAIN stored =>
             (SearchExact(k) # NULL /\ HasValueOf(SearchExact(k), Norm(k)))

\* C9: erase(k) of a key that is not stored signals NotFound and leaves the
\* trie unchanged: the same nodes with the same links, keys and payloads,
\* the same root and the same size().
C9_EraseMissingKeepsTrie ==
    [][ (op.kind = "idle" /\ op'.kind = "erase" /\ ~Dangling
           /\ Norm(op'.key) \notin DOMAIN stored) =>
          (op'.ret = NULL /\ heap' = heap /\ live' = live /\ root' = root
             /\ numNodes' = numNodes /\ status' = status) ]_vars

\* an erase that ends on a glue node at the depth of its key (a stored key
\* erased before, while it had two children) and signals NotFound
C9_Witness ==
    /\ status = "ok" /\ op.kind = "erase" /\ op.ret = NULL
    /\ Norm(op.key) \notin DOMAIN stored
    /\ root # NULL
    /\ ExactDescend(root, op.key) # NULL
    /\ heap[ExactDescend(root, op.key)].bits = op.key.bitCount
    /\ Empty(heap[ExactDescend(root, op.key)].key)
    /\ op.key.bitCount > 0

\* C10: size() is at most twice the number of distinct keys stored.
C10_SizeAtMostTwiceKeys ==
    status = "ok" => numNodes <= 2 * Cardinality(DOMAIN stored)

\* two stored keys under a glue node: 2 * 2 - 1 nodes
C10_Witness ==
    /\ status = "ok"
    /\ Cardinality(DOMAIN stored) = 2
    /\ numNodes = 3
    /\ root # NULL /\ Empty(heap[root].key) /\ heap[root].bits > 0

\* C11: clearing or destroying a trie built by insert_or_get and erase ends
\* after one pass of its loop per node, with every node reachable from the
\* root deleted exactly once, no node left allocated and none deleted twice
\* or read after its delete.
C11_ClearFreesEachNodeOnce ==
    [][ (op.kind = "idle" /\ op'.kind \in {"clear", "destroy"} /\ ~Dangling) =>
          /\ op'.fault = "none"
          /\ Len(freed') = numNodes
          /\ {freed'[i] : i \in 1..Len(freed')} = live
          /\ {freed'[i] : i \in 1..Len(freed')} =
                {Preorder(heap, root)[i] : i \in 1..Len(Preorder(heap, root))}
          /\ \A i, j \in 1..Len(freed') : freed'[i] = freed'[j] => i = j
          /\ live' = {}
          /\ numNodes' = 0 ]_vars

\* a clear of three nodes that had to put a right child on its stack
C11_Witness ==
    /\ status = "ok" /\ op.kind = "clear" /\ op.fault = "none"
    /\ Len(freed) = 3 /\ Len(sp) = 1

\* the nodes of a trie as the specification sees them: links, depth, payload
\* and the key as a length with that many bits
Shape(h, lv) ==
    [n \in lv |-> [left |-> h[n].left, right |-> h[n].right, parent |-> h[n].parent,
                   bits |-> h[n].bits, data |-> h[n].data, key |-> Norm(h[n].key)]]

\* C12: the operations do not depend on the bits of a key at positions >=
\* its length: after the same calls with keys that differ only there, the
\* two tries have the same shape (nodes, links, depths, keys up to their
\* length, payloads, root, size()) and the last call returned the same node
\* or the same NotFound in both.
C12_JunkBitsIgnored ==
    twin.kind = "synced" =>
      /\ op.kind = twin.trie.op.kind
      /\ op.ret = twin.trie.op.ret
      /\ op.fault = twin.trie.op.fault
      /\ root = twin.trie.root
      /\ numNodes = twin.trie.numNodes
      /\ live = twin.trie.live
      /\ Shape(heap, live) = Shape(twin.trie.heap, twin.trie.live)

\* insert_or_get of a key of 8 bits that meets a glue node of depth 8, with
\* bit 8 of the storage 0 for one trie and 1 for the other
C12_Witness ==
    /\ twin.kind = "synced" /\ op.kind = "insert" /\ status = "ok"
    /\ op.key.bitCount = 8
    /\ BitOf(op.key.bits, 8) # BitOf(twin.trie.op.key.bits, 8)
    /\ heap[op.ret].left # NULL /\ heap[op.ret].right # NULL
    /\ heap[heap[op.ret].left].bits = 9 /\ heap[heap[op.ret].right].bits = 9

\* C13: first_differing_bit(a, b, limit) returns d <= limit such that the
\* bits 0..d-1 of a and b agree and either d = limit or bit d of a differs
\* from bit d of b, for every limit <= N*8.
C13_FirstDifferentBitIsLeast ==
    (op.kind = "done" /\ op.fn = "firstDifferentBit") =>
      /\ op.ret <= op.n
      /\ \A i \in 0..(op.ret - 1) : BitOf(op.lhs, i) = BitOf(op.rhs, i)
      /\ op.ret = op.n \/ BitOf(op.lhs, op.ret) # BitOf(op.rhs, op.ret)

\* the storages agree in byte 0 and differ first at bit 3 of byte 1, below
\* the limit
C13_Witness ==
    /\ op.kind = "done" /\ op.fn = "firstDifferentBit"
    /\ op.ret = 11 /\ op.n > 11
    /\ op.lhs[1] = 1 /\ op.lhs[2] = 16 /\ op.rhs[2] = 1

\* a is before b in the bytes 1..n: the first byte at which they differ is
\* smaller in a
LexLess(a, b, n) ==
    \E i \in 1..n : a[i] < b[i] /\ \A j \in 1..(i - 1) : a[j] = b[j]

\* C14: a < b is by length first, and for equal lengths a < b iff the first
\* byte at which a and b differ within the whole bytes of their length is
\* smaller in a, also when earlier bytes are zero; and a == b implies
\* neither a < b nor b < a.
C14_LessIsLexicographic ==
    (op.kind = "done" /\ op.fn = "less") =>
      /\ op.ret = (IF op.lhs.bitCount # op.rhs.bitCount
                   THEN op.lhs.bitCount < op.rhs.bitCount
                   ELSE LexLess(op.lhs.bits, op.rhs.bits,
                                op.lhs.bitCount \div WORD_BITS))
      /\ Equals(op.lhs, op.rhs) => (~op.ret /\ ~Less(op.rhs, op.lhs))

\* C14 where the length is a whole number of bytes and no byte before the
\* first difference is 0
C14_LessIsLexicographicNoZero ==
    (op.kind = "done" /\ op.fn = "less"
       /\ op.lhs.bitCount % WORD_BITS = 0
       /\ \A i \in 1..(op.lhs.bitCount \div WORD_BITS) :
            (op.lhs.bits[i] = 0 /\ op.rhs.bits[i] = 0) =>
               \E j \in 1..(i - 1) : op.lhs.bits[j] # op.rhs.bits[j]) =>
      /\ op.ret = (IF op.lhs.bitCount # op.rhs.bitCount
                   THEN op.lhs.bitCount < op.rhs.bitCount
                   ELSE LexLess(op.lhs.bits, op.rhs.bits,
                                op.lhs.bitCount \div WORD_BITS))
      /\ Equals(op.lhs, op.rhs) => (~op.ret /\ ~Less(op.rhs, op.lhs))

\* C15: in every trie built by insert_or_get and erase with keys of length
\* in [0, N*8], every node whose key is empty has a left and a right child.
C15_GlueHasTwoChildren ==
    status = "ok" =>
      \A n \in live :
        Empty(heap[n].key) => (heap[n].left # NULL /\ heap[n].right # NULL)

\* C15 with no key of length 0 inserted
C15_GlueHasTwoChildrenNonEmpty ==
    (status = "ok" /\ ZeroKey \notin DOMAIN stored) =>
      \A n \in live :
        Empty(heap[n].key) => (heap[n].left # NULL /\ heap[n].right # NULL)

\* the children of node n
Children(n) == {heap[n].left, heap[n].right} \ {NULL}

\* C16: each node that is not the root has a larger bits than its parent:
\* the depth grows along every link from a node to its child.
C16_BitsGrowDownward ==
    status = "ok" =>
      \A n \in live :
        /\ \A c \in Children(n) : heap[c].bits > heap[n].bits
        /\ heap[n].parent # NULL => heap[n].bits > heap[heap[n].parent].bits

\* an insertion that put its node and the node found under a new glue node
C16_Witness ==
    /\ status = "ok" /\ op.kind = "insert" /\ numNodes = 3
    /\ heap[op.ret].parent = root
    /\ Empty(heap[root].key) /\ heap[root].bits = 7
    /\ heap[root].left # NULL /\ heap[root].right # NULL

\* C17: the root has no parent, each child of a node has that node as its
\* parent, and every allocated node is reached from the root exactly once.
C17_LinksConsistent ==
    (status = "ok" /\ ~Dangling) =>
      /\ root = NULL => live = {}
      /\ root # NULL => heap[root].parent = NULL
      /\ \A n \in live : \A c \in Children(n) : c \in live /\ heap[c].parent = n
      /\ \A n \in live : heap[n].left # NULL => heap[n].left # heap[n].right
      /\ \A n \in live \ {root} :
           heap[n].parent \in live /\ n \in Children(heap[n].parent)
      /\ Len(Preorder(heap, root)) = Cardinality(live)
      /\ {Preorder(heap, root)[i] : i \in 1..Len(Preorder(heap, root))} = live

\* an erase of a root that had one child: the child is the root now
C17_Witness ==
    /\ status = "ok" /\ op.kind = "erase" /\ op.fault = "none"
    /\ freed = <<1>> /\ op.ret = 1
    /\ numNodes = 1 /\ root # NULL /\ heap[root].key.bitCount = 9

\* the nodes above n
RECURSIVE Ancestors(_)
Ancestors(n) ==
    IF heap[n].parent = NULL THEN {}
    ELSE {heap[n].parent} \cup Ancestors(heap[n].parent)

\* the child of a through which n is reached
Toward(a, n) == CHOOSE x \in {n} \cup Ancestors(n) : heap[x].parent = a

\* C18: for each data node n and each node a above it, n lies under the
\* left child of a iff bit a.bits of n.key is 0 and under the right child
\* iff it is 1, and if a is a data node the first a.bits bits of n.key are
\* those of a.key.
C18_KeysFollowPath ==
    status = "ok" =>
      \A n \in live :
        ~Empty(heap[n].key) =>
          \A a \in Ancestors(n) :
            /\ heap[a].left = Toward(a, n) <=> ~BitOf(heap[n].key.bits, heap[a].bits)
            /\ heap[a].right = Toward(a, n) <=> BitOf(heap[n].key.bits, heap[a].bits)
            /\ ~Empty(heap[a].key) =>
                 CompareBits(heap[n].key, heap[a].key, heap[a].bits)

\* a data node of 8 bits with a data node of 9 bits under each link, the
\* second of them just inserted
C18_Witness ==
    /\ status = "ok" /\ numNodes = 3 /\ op.kind = "insert"
    /\ heap[root].key.bitCount = 8
    /\ heap[root].left # NULL /\ heap[root].right # NULL
    /\ heap[heap[root].left].key.bitCount = 9
    /\ heap[heap[root].right].key.bitCount = 9
    /\ op.ret # root
    /\ Ancestors(op.ret) = {root}

\* C19: erase never deletes a node more than once, and the erase of the
\* last node (a root leaf) leaves root NULL with that node deleted exactly
\* once.
C19_EraseFreesOnce ==
    op.kind = "erase" =>
      /\ \A i, j \in 1..Len(freed) : freed[i] = freed[j] => i = j
      /\ (op.ret # NULL /\ root = NULL) => freed = <<op.ret>>

\* C19 for every erase but that of the last node
C19_EraseFreesOnceNotLast ==
    (op.kind = "erase" /\ ~(op.ret # NULL /\ root = NULL)) =>
      /\ \A i, j \in 1..Len(freed) : freed[i] = freed[j] => i = j
      /\ op.fault # "double_free"

\* the nodes made by Node() or emptied by removeNode
Glue(h, lv) == {n \in lv : h[n].key = EmptyKey}

\* C20: insert_or_get allocates no node (the key is stored, or a glue node
\* at its position takes the key), or one data node, or one data node and
\* one glue node; get_exact, best_match and erase allocate nothing.
C20_AllocatesOnlyOnInsert ==
    [][ (op.kind = "idle" /\ ~Dangling /\ status' = "ok") =>
          /\ op'.kind \in {"at", "best"} => (live' = live /\ heap' = heap)
          /\ op'.kind = "erase" =>
               (Cardinality(live') <= Cardinality(live) /\ numNodes' <= numNodes)
          /\ op'.kind = "insert" =>
               /\ Cardinality(live') - Cardinality(live) \in {0, 1, 2}
               /\ numNodes' - numNodes = Cardinality(live') - Cardinality(live)
               /\ (Norm(op'.key) \in DOMAIN stored /\ op'.key.bitCount > 0) =>
                    live' = live
               /\ (root # NULL /\ ExactDescend(root, op'.key) # NULL
                     /\ heap[ExactDescend(root, op'.key)].key = EmptyKey
                     /\ heap[ExactDescend(root, op'.key)].bits = op'.key.bitCount) =>
                    (live' = live
                       /\ Cardinality(Glue(heap', live')) =
                            Cardinality(Glue(heap, live)) - 1)
               /\ Cardinality(live') = Cardinality(live) + 1 =>
                    /\ Norm(heap'[op'.ret].key) = Norm(op'.key)
                    /\ Cardinality(Glue(heap', live')) = Cardinality(Glue(heap, live))
               /\ Cardinality(live') = Cardinality(live) + 2 =>
                    /\ Norm(heap'[op'.ret].key) = Norm(op'.key)
                    /\ heap'[op'.ret].parent \in Glue(heap', live')
                    /\ Cardinality(Glue(heap', live')) =
                         Cardinality(Glue(heap, live)) + 1 ]_vars

\* a glue node of depth 8 that took the key of an insertion of 8 bits
C20_Witness ==
    /\ status = "ok" /\ op.kind = "insert" /\ op.key.bitCount = 8
    /\ op.ret = root /\ numNodes = 3 /\ Glue(heap, live) = {}
    /\ \A c \in Children(root) : heap[c].key.bitCount = 9
    /\ Cardinality(Children(root)) = 2
    /\ stored[Norm(op.key)] = Indet

\* the stack array of searchBest and of clear: Node* stack[N * 8 + 1]
StackSize == N * WORD_BITS + 1

C22_NewKeyHasNoOldPayload ==
    (status = "ok" /\ op.kind = "insert" /\ stored[Norm(op.key)] = Indet) =>
      heap[op.ret].data = Indet

\* C22 for an insertion that allocates the node of the key
C22_NewNodeHasNoOldPayload ==
    [][ (op.kind = "idle" /\ op'.kind = "insert" /\ status' = "ok"
           /\ stored'[Norm(op'.key)] = Indet
           /\ Cardinality(live') > Cardinality(live)) =>
          heap'[op'.ret].data = Indet ]_vars

\* C23: get_exact and best_match, whether they return a payload or signal
\* NotFound, leave the trie unchanged: the same nodes with the same links,
\* bits, keys and payloads, the same root and the same size().
C23_SearchKeepsTrie ==
    [][ (op.kind = "idle" /\ op'.kind \in {"at", "best"} /\ ~Dangling) =>
          /\ heap' = heap
          /\ live' = live
          /\ root' = root
          /\ numNodes' = numNodes
          /\ status' = status ]_vars

\* a search that passed a glue node and signalled NotFound
C23_Witness ==
    /\ status = "ok" /\ op.kind \in {"at", "best"} /\ op.ret = NULL
    /\ numNodes = 3 /\ root # NULL /\ heap[root].key = EmptyKey
    /\ heap[root].bits < op.key.bitCount

\* C24: after any sequence of insert_or_get and erase, size() is the number
\* of nodes (data and glue) reachable from the root, and empty() is true iff
\* that number is zero.
C24_SizeCountsReachable ==
    (status = "ok" /\ ~Dangling) =>
      /\ numNodes = Len(Preorder(heap, root))
      /\ (root = NULL) <=> (Len(Preorder(heap, root)) = 0)

\* an erase that removed a leaf and the glue node above it, leaving one node
C24_Witness ==
    /\ status = "ok" /\ op.kind = "erase" /\ op.fault = "none"
    /\ Len(freed) = 2 /\ freed[1] # freed[2]
    /\ numNodes = 1 /\ root # NULL

\* C25: erase never writes through a null node pointer: when the erased
\* leaf's parent has an empty key, the parent's other child is not null,
\* also with a key of length 0 stored.
C25_EraseNoNullDeref ==
    op.kind = "erase" => op.fault # "null_deref"

\* C25 with no key of length 0 inserted
C25_EraseNoNullDerefNonEmpty ==
    (op.kind = "erase" /\ ZeroKey \notin DOMAIN stored) => op.fault # "null_deref"

\* C26: after clear() the trie is in the state of a new trie: empty() holds,
\* size() is 0, root refers to no deleted node, and no later operation or
\* the destructor reads or deletes a node that clear deleted.
C26_ClearLeavesEmptyTrie ==
    /\ (op.kind = "clear" /\ op.fault = "none") =>
         (root = NULL /\ numNodes = 0 /\ live = {} /\ ~Dangling)
    /\ op.fault # "use_after_free"

\* what clear() does achieve: every node deleted and size() 0
C26_ClearResetsSize ==
    (op.kind = "clear" /\ op.fault = "none") => (numNodes = 0 /\ live = {})

====
